---- MODULE Spec2Model ----
(***************************************************************************)
(* Model of magnet_toei_prober.controller.Controller: the field/voltage    *)
(* calibration, the start-up field check, the output-field setter with its *)
(* ramp write, the Hall-sensor read and the activity log.                  *)
(*                                                                         *)
(* Numbers are fixed point.  A voltage is an integer count of 10 uV        *)
(* (VOLT counts per volt); a field is an integer count of 0.01 Oe (FIELD   *)
(* counts per oersted); a time span is an integer count of microseconds.   *)
(* Divisions round towards minus infinity (\div), where the program's      *)
(* floats round to nearest.                                                *)
(*                                                                         *)
(* One action is one public operation of the controller, run to its return *)
(* or to the exception that leaves it.  The DAQ driver, the clock and the  *)
(* file system are the environment: what they answer is chosen with \E.    *)
(***************************************************************************)
EXTENDS Integers, Sequences, FiniteSets

\* ------------------------------------------------------------------ units

VOLT == 100000

FIELD == 100

MICRO == 1000000

\* An absent value (Python None) is the empty tuple, a present one << x >>.
None == << >>

Some(x) == << x >>

Abs(x) == IF x < 0 THEN -x ELSE x

\* ------------------------------------------------ class attribute defaults

READ_SAMPLE_NUM == 100

\* TIME_VOLTAGE_SWEEP = 10e-3 s, in microseconds
DEFAULT_TIME_VOLTAGE_SWEEP == 10000

\* WRITE_SAMPLE_CLOCK = 100e3 Hz
DEFAULT_WRITE_SAMPLE_CLOCK == 100000

\* int(WRITE_SAMPLE_CLOCK * TIME_VOLTAGE_SWEEP), evaluated once in the class
\* body from the two defaults above; an instance that is given another
\* clock or sweep time keeps this value.
WRITE_ARRAY_LENGTH == (DEFAULT_WRITE_SAMPLE_CLOCK * DEFAULT_TIME_VOLTAGE_SWEEP) \div MICRO

DEFAULT_V_OUT_MAX == 10 * VOLT

DEFAULT_V_OUT_MIN == -10 * VOLT

DEFAULT_V_IN_MAX == 10 * VOLT

DEFAULT_V_IN_MIN == -10 * VOLT

\* The threshold of the start-up check, 10 Oe.
INITIAL_FIELD_LIMIT == 10 * FIELD

\* ------------------------------------------------------------ calibration

\* H2V: target field (0.01 Oe) to output voltage (10 uV).
\*   V = -0.01268 + 0.00281 H + 3.02608e-10 H^2 - 1.5036e-11 H^3
\*       - 1.66895e-16 H^4 + 3.15376e-18 H^5          (H in Oe, V in volts)
\* The constant and the linear term are exact in these units; the higher
\* terms are evaluated on the whole oersteds k of H, with the coefficients
\* cut to four digits, staged so that no product leaves 32 bits for
\* |H| <= 5000 Oe.
H2V(H) ==
    LET k   == H \div FIELD
        k2  == k * k
        k3m == (k2 \div 1000) * k
        k4M == (k2 \div 1000) * (k2 \div 1000)
        k5G == (k4M \div 10000) * k
        t0  == -1268
        t1  == (281 * H) \div FIELD
        t2  == ((k2 \div 100) * 3026) \div 1000000
        t3  == -(((k3m \div 1000) * 1504) \div 1000)
        t4  == -(((k4M \div 1000) * 1669) \div 100000)
        t5  == ((k5G \div 1000) * 3154) \div 1000
    IN  t0 + t1 + t2 + t3 + t4 + t5

\* V2H: Hall voltage (10 uV) to field (0.01 Oe).
\*   H = -0.05665 + 260.16273 V - 2.1979e-5 V^2 + 0.01858 V^3
\*       + 1.97225e-4 V^4 - 2.33726e-4 V^5             (V in volts, H in Oe)
\* The sum is formed in units of 1e-5 Oe and cut to 0.01 Oe at the end; the
\* higher terms are evaluated on the millivolts m of V.
V2H(V) ==
    LET m   == V \div 100
        m2  == m * m
        m3  == (m2 \div 1000) * m
        m4  == (m2 \div 10000) * (m2 \div 10000)
        m5  == (m4 \div 1000) * m
        t0  == -5665
        t1  == 260 * V + (163 * V) \div 1000
        t2  == -(((m2 \div 1000) * 22) \div 10000)
        t3  == ((m3 \div 1000) * 1858) \div 1000
        t4  == ((m4 \div 100) * 197) \div 1000
        t5  == -(((m5 \div 1000) * 234) \div 100)
    IN  (t0 + t1 + t2 + t3 + t4 + t5) \div 1000

\* ------------------------------------------------------------ numpy helpers

\* s[lo] + ... + s[hi], by halves
RECURSIVE SumRange(_, _, _)
SumRange(s, lo, hi) ==
    IF lo > hi THEN 0
    ELSE IF lo = hi THEN s[lo]
    ELSE LET mid == (lo + hi) \div 2
         IN  SumRange(s, lo, mid) + SumRange(s, mid + 1, hi)

\* np.mean(data)
Mean(data) == SumRange(data, 1, Len(data)) \div Len(data)

\* np.linspace(start, stop, num): num samples, the first is start, the
\* spacing is (stop - start) / (num - 1), the last is set to stop.  One
\* sample is start alone; none is the empty array.
Linspace(start, stop, num) ==
    IF num <= 0 THEN << >>
    ELSE IF num = 1 THEN << start >>
    ELSE LET d == stop - start
             q == d \div (num - 1)
             r == d % (num - 1)
         IN  [i \in 1..num |->
                IF i = num THEN stop
                ELSE start + q * (i - 1) + (r * (i - 1)) \div (num - 1)]

\* ------------------------------------------------------------- environment

\* Operations after construction that one behaviour runs.
MaxOps == 2

\* The clock: datetime.datetime.now() returns the last reading or a later
\* one.  An operation reads the clock once the hardware session it opened
\* has returned, which takes the time of the read (READ_SAMPLE_NUM samples
\* at READ_SAMPLE_CLOCK) or of the ramp: the clock has stepped.  An
\* operation that opens no session may read the instant of the reading
\* before it.
Ticks == {0, 1}

\* What the Hall channel returns for one read: READ_SAMPLE_NUM samples
\* around a level, with a three-step ripple.
Samples(level, ripple) ==
    [i \in 1..READ_SAMPLE_NUM |-> level + ripple * (i % 3)]

HallReadings == {Samples(3860, 2), Samples(3866, 0), Samples(-3810, 0), Samples(-5770, 3)}

\* Target fields a caller asks for, in 0.01 Oe.
Targets == {1000 * FIELD, 5000 * FIELD, -4000 * FIELD}

\* The driver call of one hardware session that raises, if any.
NoFault == "none"

ReadCalls ==
    << "Task", "add_ai_voltage_chan", "cfg_samp_clk_timing", "read",
       "wait_until_done", "stop", "close" >>

WriteCalls ==
    << "Task", "add_ao_voltage_chan", "cfg_samp_clk_timing", "write",
       "wait_until_done", "stop", "close" >>

Range(s) == {s[i] : i \in DOMAIN s}

ReadFaults == {NoFault} \cup Range(ReadCalls)

WriteFaults == {NoFault} \cup Range(WriteCalls)

\* What the file system answers to one log call that saves its line.
FsOutcomes == {"append", "oserror", "missing_then_created", "missing"}

\* ------------------------------------------------------------ configuration

\* The attributes that decide what the controller does.  The addresses,
\* the read clock, the units and the terminal configuration only pass to
\* the driver; print_log only prints.
DefaultConfig ==
    [ V_OUT_MAX          |-> DEFAULT_V_OUT_MAX,
      V_OUT_MIN          |-> DEFAULT_V_OUT_MIN,
      V_IN_MAX           |-> DEFAULT_V_IN_MAX,
      V_IN_MIN           |-> DEFAULT_V_IN_MIN,
      WRITE_SAMPLE_CLOCK |-> DEFAULT_WRITE_SAMPLE_CLOCK,
      TIME_VOLTAGE_SWEEP |-> DEFAULT_TIME_VOLTAGE_SWEEP,
      WRITE_ARRAY_LENGTH |-> WRITE_ARRAY_LENGTH,
      save_log           |-> TRUE ]

\* The keyword arguments a caller constructs the controller with: the
\* defaults, or one attribute overridden.  278557 is H2V(1000 Oe): a bound
\* that a target's voltage meets exactly.
Configs ==
    { DefaultConfig,
      [DefaultConfig EXCEPT !.V_OUT_MAX = 278557],
      [DefaultConfig EXCEPT !.V_IN_MAX = 278557],
      [DefaultConfig EXCEPT !.V_OUT_MAX = 0],
      [DefaultConfig EXCEPT !.WRITE_SAMPLE_CLOCK = 50000],
      [DefaultConfig EXCEPT !.save_log = FALSE] }

\* ------------------------------------------------------------------- state

VARIABLES
    phase,            \* "new": not constructed; "ready": the caller holds the
                      \* instance; "failed": __post_init__ raised, no instance
    cfg,              \* the instance's configuration attributes
    _output_field,    \* None or Some(MagnetOutput)
    _measured_field,  \* None or Some(MeasuredMagneticField)
    _log,             \* dict: timestamp -> message
    clock,            \* the last reading of datetime.datetime.now()
    file,             \* the file at LOG_PATH: whether it exists, its lines
    tasks_open,       \* nidaqmx tasks created and not closed
    ao_writes,        \* calls of task.write on the output channel so far
    v_out,            \* the array of the last such call
    ao_held,          \* None, or Some(last sample the output channel played)
    init_field,       \* None, or Some(field measured by __post_init__)
    last,             \* the operation that ran last: its outcome, and the
                      \* state it started from
    nops              \* operations run after construction

vars ==
    << phase, cfg, _output_field, _measured_field, _log, clock, file,
       tasks_open, ao_writes, v_out, ao_held, init_field, last, nops >>

MagnetOutput(timestamp, field, voltage) ==
    [timestamp |-> timestamp, field |-> field, voltage |-> voltage]

MeasuredMagneticField(timestamp, field, hall_voltage) ==
    [timestamp |-> timestamp, field |-> field, hall_voltage |-> hall_voltage]

\* A log message: its text, and the target field formatted into it (0 in a
\* message without one).
Message(text, arg) == [text |-> text, arg |-> arg]

MSG_INIT_OK == Message("--- Initializing. Magnetic field is zero. ---", 0)

MSG_INIT_BAD == Message("Initial magnetic field is not zero.", 0)

MSG_INVALID == Message("--- Output voltage is not valid. ---", 0)

MsgSet(target_field) == Message("--- Magnetic field is set to {target_field} Oe. ---", target_field)

\* d[k] = v on a dict
Put(d, k, v) == [x \in (DOMAIN d) \cup {k} |-> IF x = k THEN v ELSE d[x]]

EmptyDict == [x \in {} |-> 0]

\* --------------------------------------------------------- driver sessions

CallIndex(calls, name) == CHOOSE i \in DOMAIN calls : calls[i] = name

\* The session with this fault made the call / got past the call.
Reached(calls, fault, call) ==
    fault = NoFault \/ CallIndex(calls, fault) >= CallIndex(calls, call)

Returned(calls, fault, call) ==
    fault = NoFault \/ CallIndex(calls, fault) > CallIndex(calls, call)

\* nidaqmx.Task() returned: a task exists.
SessionCreated(calls, fault) == Returned(calls, fault, "Task")

\* task.close() is reached only when every call before it returned: there
\* is no try/finally and no with-block around the session.
SessionClosed(calls, fault) == Returned(calls, fault, "close")

\* Tasks a session leaves open behind it.
SessionLeak(calls, fault) ==
    IF SessionCreated(calls, fault) /\ ~SessionClosed(calls, fault) THEN 1 ELSE 0

\* How many samples of a ramp of n the output channel played, by the call
\* that raised: none before task.write; none or a part when task.write
\* raised; a part or all when task.wait_until_done raised; all afterwards.
Delivered(fault, n) ==
    IF ~Reached(WriteCalls, fault, "write") THEN {0}
    ELSE IF fault = "write" THEN {0, n \div 2}
    ELSE IF fault = "wait_until_done" THEN {n \div 2, n}
    ELSE {n}

\* --------------------------------------------------------------- Controller

\* The check with <= for <: a field of exactly 10 Oe passes.
FieldIsZero_Inclusive(H) == Abs(H) <= INITIAL_FIELD_LIMIT

\* The check without np.abs: any negative field passes.
FieldIsZero_Signed(H) == H < INITIAL_FIELD_LIMIT

\* __post_init__: np.abs(current_field.field) < 10
FieldIsZero(H) == Abs(H) < INITIAL_FIELD_LIMIT

\* The start-up record with the voltage of a zero field for the zero voltage.
InitialOutput_Calibrated(now) == MagnetOutput(now, 0, H2V(0))

\* __post_init__: MagnetOutput(datetime.datetime.now(), 0, 0)
InitialOutput(now) == MagnetOutput(now, 0, 0)

\* The check against the output maximum alone.
VoltageIsValid_OutputOnly(target_voltage, c) == target_voltage < c.V_OUT_MAX

\* The check with <= for <: a voltage that meets a maximum passes.
VoltageIsValid_Inclusive(target_voltage, c) ==
    (target_voltage <= c.V_OUT_MAX) /\ (target_voltage <= c.V_IN_MAX)

\* setter: (target_voltage < self.V_OUT_MAX) and (target_voltage < self.V_IN_MAX)
VoltageIsValid(target_voltage, c) ==
    (target_voltage < c.V_OUT_MAX) /\ (target_voltage < c.V_IN_MAX)

\* The ramp started at 0 V for the recorded output voltage.
Ramp_FromZero(output, target_voltage, c) ==
    Linspace(0, target_voltage, c.WRITE_ARRAY_LENGTH)

\* setter: np.linspace(self.output_field.voltage, target_voltage, self.WRITE_ARRAY_LENGTH)
Ramp(output, target_voltage, c) ==
    Linspace(output[1].voltage, target_voltage, c.WRITE_ARRAY_LENGTH)

\* The record assigned before the session, whatever the session does.
OutputAfterSet_Early(old, fault, now, target_field, target_voltage) ==
    Some(MagnetOutput(now, target_field, target_voltage))

\* setter: self._output_field is assigned after task.close() returned
OutputAfterSet(old, fault, now, target_field, target_voltage) ==
    IF fault = NoFault THEN Some(MagnetOutput(now, target_field, target_voltage))
    ELSE old

\* measured_field: self._measured_field is assigned after task.close() returned
MeasuredAfterRead(old, fault, now, data) ==
    IF fault = NoFault
    THEN LET V == Mean(data)
             H == V2H(V)
         IN  Some(MeasuredMagneticField(now, H, V))
    ELSE old

\* log with the message stored in the dict after the line is saved: a call
\* that raises leaves no entry.
LogCall_StoreAfterSave(lg, fl, c, message, now, fs) ==
    IF c.save_log /\ fs \in {"oserror", "missing"}
    THEN [log |-> lg, file |-> fl, raised |-> TRUE]
    ELSE [log |-> Put(lg, now, message),
          file |-> IF ~c.save_log THEN fl
                   ELSE [exists |-> TRUE, lines |->
                            IF fs = "append"
                            THEN Append(fl.lines, [timestamp |-> now, message |-> message])
                            ELSE << [timestamp |-> now, message |-> message] >>],
          raised |-> FALSE]

\* log(message), called with the dict and the file as they are, at the
\* instant now; fs is the file system's answer.  Gives the dict and the
\* file afterwards, and whether the call raised.
LogCall(lg, fl, c, message, now, fs) ==
    LET line == [timestamp |-> now, message |-> message]
        d    == Put(lg, now, message)
    IN  IF ~c.save_log
        THEN [log |-> d, file |-> fl, raised |-> FALSE]
        ELSE IF fs = "append"
        THEN \* open(LOG_PATH, "a") creates the file when it is absent
             [log |-> d, file |-> [exists |-> TRUE, lines |-> Append(fl.lines, line)],
              raised |-> FALSE]
        ELSE IF fs = "missing_then_created"
        THEN \* FileNotFoundError, then open(LOG_PATH, "w") truncates
             [log |-> d, file |-> [exists |-> TRUE, lines |-> << line >>],
              raised |-> FALSE]
        ELSE \* an OSError that is no FileNotFoundError, or FileNotFoundError
             \* from open(LOG_PATH, "w") as well
             [log |-> d, file |-> fl, raised |-> TRUE]

\* The file system's answers that are possible with the file as it is.
\* open(LOG_PATH, "a") raises FileNotFoundError when the path does not
\* resolve at that moment (a directory or a network share that is away),
\* whatever the file holds; open(LOG_PATH, "w") right after it may find the
\* path again, and then opens the file that is there.
FsPossible(fl) == FsOutcomes

\* What the array handed to task.write was: its length and its ends.
RampRecord(ramp) ==
    IF Len(ramp) = 0 THEN [length |-> 0, first |-> 0, last |-> 0]
    ELSE [length |-> Len(ramp), first |-> ramp[1], last |-> ramp[Len(ramp)]]

\* The state an operation starts from, kept in last.
Snapshot ==
    [ output |-> _output_field, measured |-> _measured_field, log |-> _log,
      tasks_open |-> tasks_open, ao_writes |-> ao_writes, file |-> file,
      clock |-> clock, ao_held |-> ao_held ]

\* last: op is the operation, result "ok" or the exception it raised,
\* opened the tasks it created, checked whether it evaluated the bound
\* check, target the field it was asked for and voltage its H2V, ret what
\* it returned (None for a setter or a raise), pre the state it started from.
Outcome(op, result, opened, checked, target, voltage, ret) ==
    [ op |-> op, result |-> result, opened |-> opened, checked |-> checked,
      target |-> target, voltage |-> voltage, ret |-> ret, pre |-> Snapshot ]

Init ==
    /\ phase = "new"
    /\ cfg \in Configs
    /\ _output_field = None
    /\ _measured_field = None
    /\ _log = EmptyDict
    /\ clock = 0
    /\ file = [exists |-> FALSE, lines |-> << >>]
    /\ tasks_open = 0
    /\ ao_writes = 0
    /\ v_out = RampRecord(<< >>)
    /\ ao_held = None
    /\ init_field = None
    /\ last = Outcome("none", "ok", 0, FALSE, 0, 0, None)
    /\ nops = 0

\* Controller(...): the dataclass __init__ stores the attributes, then
\* __post_init__ reads the field and checks it.
PostInit ==
    /\ phase = "new"
    /\ \E data \in HallReadings :
        \E read \in {MeasuredAfterRead(_measured_field, NoFault, clock + 1, data)},
           fault \in ReadFaults, fs \in FsPossible(file) :
            LET now    == clock + 1
                zero   == FieldIsZero(read[1].field)
                opened == IF SessionCreated(ReadCalls, fault) THEN 1 ELSE 0
                lg     == LogCall(_log, file, cfg,
                                  IF zero THEN MSG_INIT_OK ELSE MSG_INIT_BAD, now, fs)
            IN  /\ tasks_open' = tasks_open + SessionLeak(ReadCalls, fault)
                /\ _measured_field' = IF fault = NoFault THEN read
                                      ELSE MeasuredAfterRead(_measured_field, fault, now, data)
                /\ UNCHANGED << cfg, ao_writes, v_out, ao_held, nops >>
                /\ IF fault # NoFault
                   THEN \* the driver raised inside measured_field
                        /\ phase' = "failed"
                        /\ last' = Outcome("__post_init__", "DaqError", opened, FALSE, 0, 0, None)
                        /\ UNCHANGED << _output_field, _log, clock, file, init_field >>
                   ELSE /\ init_field' = Some(read[1].field)
                        /\ _log' = lg.log
                        /\ file' = lg.file
                        /\ clock' = now
                        /\ IF lg.raised
                           THEN /\ phase' = "failed"
                                /\ last' = Outcome("__post_init__", "OSError", opened, FALSE, 0, 0, None)
                                /\ UNCHANGED _output_field
                           ELSE IF zero
                           THEN /\ phase' = "ready"
                                /\ _output_field' = Some(InitialOutput(now))
                                /\ last' = Outcome("__post_init__", "ok", opened, FALSE, 0, 0, None)
                           ELSE /\ phase' = "failed"
                                /\ last' = Outcome("__post_init__", "ValueError", opened, FALSE, 0, 0, None)
                                /\ UNCHANGED _output_field

\* controller.measured_field
GetMeasuredField ==
    /\ phase = "ready"
    /\ nops < MaxOps
    /\ \E data \in HallReadings :
        \E read \in {MeasuredAfterRead(_measured_field, NoFault, clock + 1, data)},
           fault \in ReadFaults :
            LET now    == clock + 1
                opened == IF SessionCreated(ReadCalls, fault) THEN 1 ELSE 0
            IN  /\ tasks_open' = tasks_open + SessionLeak(ReadCalls, fault)
                /\ _measured_field' = IF fault = NoFault THEN read
                                      ELSE MeasuredAfterRead(_measured_field, fault, now, data)
                /\ clock' = IF fault = NoFault THEN now ELSE clock
                /\ last' = Outcome("measured_field",
                                   IF fault = NoFault THEN "ok" ELSE "DaqError",
                                   opened, FALSE, 0, 0,
                                   IF fault = NoFault THEN read ELSE None)
    /\ nops' = nops + 1
    /\ UNCHANGED << phase, cfg, _output_field, _log, file, ao_writes, v_out,
                    ao_held, init_field >>

\* The getter as a read that refreshes the record: it stamps the stored
\* output with the time of the read before returning it.
GetOutputField_Stamping ==
    /\ phase = "ready"
    /\ nops < MaxOps
    /\ _output_field' = Some(MagnetOutput(clock + 1, _output_field[1].field,
                                          _output_field[1].voltage))
    /\ clock' = clock + 1
    /\ last' = Outcome("output_field", "ok", 0, FALSE, 0, 0, _output_field')
    /\ nops' = nops + 1
    /\ UNCHANGED << phase, cfg, _measured_field, _log, file, tasks_open,
                    ao_writes, v_out, ao_held, init_field >>

\* controller.output_field
GetOutputField ==
    /\ phase = "ready"
    /\ nops < MaxOps
    /\ last' = Outcome("output_field", "ok", 0, FALSE, 0, 0, _output_field)
    /\ nops' = nops + 1
    /\ UNCHANGED << phase, cfg, _output_field, _measured_field, _log, clock,
                    file, tasks_open, ao_writes, v_out, ao_held, init_field >>

\* controller.output_field = target_field
SetOutputField ==
    /\ phase = "ready"
    /\ nops < MaxOps
    /\ \E target_field \in Targets :
       \E target_voltage \in {H2V(target_field)} :
        IF VoltageIsValid(target_voltage, cfg)
        THEN \E ramp \in {Ramp(_output_field, target_voltage, cfg)},
                fault \in WriteFaults, fs \in FsPossible(file) :
             LET now    == clock + 1
                 opened == IF SessionCreated(WriteCalls, fault) THEN 1 ELSE 0
                 wrote  == Reached(WriteCalls, fault, "write")
                 lg     == LogCall(_log, file, cfg, MsgSet(target_field), now, fs)
             IN  /\ tasks_open' = tasks_open + SessionLeak(WriteCalls, fault)
                 /\ ao_writes' = IF wrote THEN ao_writes + 1 ELSE ao_writes
                 /\ v_out' = IF wrote THEN RampRecord(ramp) ELSE v_out
                 /\ \E n \in Delivered(fault, Len(ramp)) :
                        ao_held' = IF n = 0 THEN ao_held ELSE Some(ramp[n])
                 /\ _output_field' =
                        OutputAfterSet(_output_field, fault, now, target_field, target_voltage)
                 /\ IF fault # NoFault
                    THEN /\ last' = Outcome("set_output_field", "DaqError", opened, TRUE,
                                            target_field, target_voltage, None)
                         /\ UNCHANGED << _log, file, clock >>
                    ELSE /\ _log' = lg.log
                         /\ file' = lg.file
                         /\ clock' = now
                         /\ last' = Outcome("set_output_field",
                                            IF lg.raised THEN "OSError" ELSE "ok",
                                            opened, TRUE, target_field, target_voltage, None)
        ELSE \E t \in Ticks, fs \in FsPossible(file) :
             LET now == clock + t
                 lg  == LogCall(_log, file, cfg, MSG_INVALID, now, fs)
             IN  /\ _log' = lg.log
                 /\ file' = lg.file
                 /\ clock' = now
                 /\ last' = Outcome("set_output_field",
                                    IF lg.raised THEN "OSError" ELSE "ValueError",
                                    0, TRUE, target_field, target_voltage, None)
                 /\ UNCHANGED << _output_field, tasks_open, ao_writes, v_out, ao_held >>
    /\ nops' = nops + 1
    /\ UNCHANGED << phase, cfg, _measured_field, init_field >>

Next ==
    \/ PostInit
    \/ GetMeasuredField
    \/ GetOutputField
    \/ SetOutputField

Spec == Init /\ [][Next]_vars

\* ------------------------------------------------------------------ claims

\* The last operation was the setter, and the voltage of its target met or
\* passed a maximum / stayed below both.
SetRejected ==
    /\ last.op = "set_output_field"
    /\ (last.voltage >= cfg.V_OUT_MAX \/ last.voltage >= cfg.V_IN_MAX)

SetAccepted ==
    /\ last.op = "set_output_field"
    /\ last.voltage < cfg.V_OUT_MAX
    /\ last.voltage < cfg.V_IN_MAX

\* The last operation handed a ramp to task.write.
RampWritten == ao_writes > last.pre.ao_writes

\* C1: a construction that measures a field of magnitude 10 Oe or more
\* (exactly 10 Oe too) raises, and _output_field is never set (nothing runs
\* on the instance afterwards); one that measures a magnitude below 10 Oe
\* does not raise the ValueError of the field check.
C1_UnsafeInitialFieldFails ==
    init_field # None =>
        IF Abs(init_field[1]) >= INITIAL_FIELD_LIMIT
        THEN /\ phase = "failed"
             /\ last.op = "__post_init__"
             /\ last.result \in {"ValueError", "OSError"}
             /\ (~cfg.save_log => last.result = "ValueError")
             /\ _output_field = None
        ELSE last.op = "__post_init__" => last.result # "ValueError"

C1_Witness ==
    /\ init_field = Some(INITIAL_FIELD_LIMIT)
    /\ last.op = "__post_init__"
    /\ last.result = "ValueError"
    /\ _output_field = None

\* C2: whenever a ramp has been handed to the output channel, the
\* construction of this controller completed its measurement read, the
\* field it measured was below 10 Oe in magnitude, and the construction
\* returned; a construction writes nothing, so a controller whose
\* construction failed has written nothing.
C2_ReadBeforeWrite ==
    /\ ao_writes > 0 =>
        /\ init_field # None
        /\ Abs(init_field[1]) < INITIAL_FIELD_LIMIT
        /\ phase = "ready"
    /\ (phase = "failed" \/ last.op = "__post_init__") => ao_writes = 0

C2_Witness ==
    /\ ao_writes > 0
    /\ init_field # None
    /\ init_field[1] < 0

\* C3: a set whose target voltage meets or passes the output maximum or the
\* input maximum raises (ValueError, or the OSError of its log call when
\* that raises first), creates no task, hands nothing to task.write and
\* leaves _output_field as it was.
C3_InvalidVoltageRejected ==
    SetRejected =>
        /\ last.result \in {"ValueError", "OSError"}
        /\ (~cfg.save_log => last.result = "ValueError")
        /\ last.opened = 0
        /\ tasks_open = last.pre.tasks_open
        /\ ao_writes = last.pre.ao_writes
        /\ _output_field = last.pre.output

C3_Witness ==
    /\ SetRejected
    /\ last.voltage = cfg.V_IN_MAX
    /\ last.voltage < cfg.V_OUT_MAX
    /\ last.result = "ValueError"
    /\ ao_writes > 0

\* C4: a set whose target voltage is below both maxima is not rejected: it
\* raises only what the driver or the log file raises.  It calls task.write
\* at most once, and exactly once when the driver raises nothing; the ramp
\* it writes starts at the voltage _output_field held and ends at the
\* target voltage; and when the driver raises nothing _output_field holds
\* the target field and the target voltage afterwards.
C4_ValidSetRamps ==
    SetAccepted =>
        /\ last.result \in {"ok", "DaqError", "OSError"}
        /\ (~cfg.save_log => last.result \in {"ok", "DaqError"})
        /\ ao_writes \in {last.pre.ao_writes, last.pre.ao_writes + 1}
        /\ RampWritten =>
            /\ v_out.first = last.pre.output[1].voltage
            /\ v_out.last = last.voltage
        /\ last.result \in {"ok", "OSError"} =>
            /\ RampWritten
            /\ _output_field # None
            /\ _output_field[1].field = last.target
            /\ _output_field[1].voltage = last.voltage

C4_Witness ==
    /\ SetAccepted
    /\ last.result = "ok"
    /\ last.pre.output[1].voltage # 0
    /\ v_out.first = last.pre.output[1].voltage
    /\ v_out.last # v_out.first
    /\ _output_field[1].voltage = v_out.last

\* C5: every ramp handed to the output channel follows a bound check of its
\* target voltage, and its target voltage lies within the configured output
\* bounds [V_OUT_MIN, V_OUT_MAX].  Stated for the sets that return, where
\* the driver took the whole ramp and raised nothing.
C5_RampsWithinOutputBounds ==
    (RampWritten /\ last.result = "ok") =>
        /\ last.checked
        /\ cfg.V_OUT_MIN <= v_out.last
        /\ v_out.last <= cfg.V_OUT_MAX

\* The record that __post_init__ creates: field 0 at 0 V.  The setter's
\* record for a field of 0 holds H2V(0), which is not 0 V.
IsInitialOutput(o) == o.field = 0 /\ o.voltage = 0

\* C6 as stated: whenever _output_field is set, under every configuration
\* of the bounds, its voltage is below the output maximum and below the
\* input maximum.
C6_OutputBelowMaxima_AsStated ==
    _output_field # None =>
        /\ _output_field[1].voltage < cfg.V_OUT_MAX
        /\ _output_field[1].voltage < cfg.V_IN_MAX

\* C6 as amended: whenever _output_field is set, its voltage is below the
\* output maximum and below the input maximum if the setter created the
\* record, under every configuration of the bounds, or if both maxima are
\* above 0 V; the record of the construction holds 0 V unchecked.
C6_OutputBelowMaxima ==
    (/\ _output_field # None
     /\ \/ ~IsInitialOutput(_output_field[1])
        \/ (cfg.V_OUT_MAX > 0 /\ cfg.V_IN_MAX > 0)) =>
        /\ _output_field[1].voltage < cfg.V_OUT_MAX
        /\ _output_field[1].voltage < cfg.V_IN_MAX

C6_Witness ==
    /\ _output_field # None
    /\ ~IsInitialOutput(_output_field[1])
    /\ cfg.V_OUT_MAX = 0
    /\ _output_field[1].voltage < 0

\* C7: when a public operation has returned or raised, no task it created
\* is still open.
C7_SessionsReleased == tasks_open = 0

\* C8: an operation creates at most one task and calls task.write at most
\* once, so nothing is retried; and when the driver raised in it, a set has
\* left _output_field, and a read _measured_field, as it was.
C8_HardwareFailurePropagates ==
    /\ last.opened <= 1
    /\ ao_writes <= last.pre.ao_writes + 1
    /\ last.result = "DaqError" =>
        /\ last.op \in {"__post_init__", "measured_field", "set_output_field"}
        /\ _output_field = last.pre.output
        /\ _measured_field = last.pre.measured

C8_Witness ==
    /\ last.op = "set_output_field"
    /\ last.result = "DaqError"
    /\ RampWritten
    /\ ao_held = Some(last.voltage)
    /\ _output_field[1].voltage # last.voltage

\* C9: a construction that measures a field below 10 Oe in magnitude, and
\* whose log call returns, returns with _output_field at field 0 and 0 V;
\* a construction creates the one task of its measurement read and hands
\* nothing to task.write.
C9_SafeConstruction ==
    last.op = "__post_init__" =>
        /\ ao_writes = 0
        /\ ao_held = None
        /\ last.opened <= 1
        /\ (init_field # None /\ Abs(init_field[1]) < INITIAL_FIELD_LIMIT) =>
            /\ last.opened = 1
            /\ last.result \in {"ok", "OSError"}
            /\ (~cfg.save_log => last.result = "ok")
            /\ last.result = "ok" =>
                /\ phase = "ready"
                /\ _output_field # None
                /\ _output_field[1].field = 0
                /\ _output_field[1].voltage = 0

C9_Witness ==
    /\ last.op = "__post_init__"
    /\ phase = "ready"
    /\ init_field # None
    /\ init_field[1] < 0
    /\ _output_field # None
    /\ _output_field[1].voltage = 0

\* C10: the ramp that a set which returns has handed to task.write has as
\* many samples as the integer part of the instance's output sample rate
\* times its ramp duration.
C10_RampLengthFromConfiguration ==
    (RampWritten /\ last.result = "ok") =>
        v_out.length = (cfg.WRITE_SAMPLE_CLOCK * cfg.TIME_VOLTAGE_SWEEP) \div MICRO

\* The last operation was a construction or a set of output_field, and it
\* got as far as its log call (no driver call raised before it).
LoggingOp == last.op \in {"__post_init__", "set_output_field"}

ReachedLog == LoggingOp /\ last.result # "DaqError"

\* The message the last operation passes to log.
LoggedMessage ==
    IF last.op = "__post_init__"
    THEN IF FieldIsZero(init_field[1]) THEN MSG_INIT_OK ELSE MSG_INIT_BAD
    ELSE IF SetAccepted THEN MsgSet(last.target) ELSE MSG_INVALID

LogSize(lg) == Cardinality(DOMAIN lg)

C12_LogAppendOnly ==
    \A k \in DOMAIN last.pre.log :
        /\ k \in DOMAIN _log
        /\ _log[k] = last.pre.log[k]

\* C13: a file write that fails inside log does not abort the operation
\* that logs: a construction that measured a field below 10 Oe in magnitude
\* establishes _output_field and returns, and a set that passed validation
\* and whose driver calls all returned returns without raising.
C13_LogFailureDoesNotAbort ==
    /\ (last.op = "__post_init__" /\ init_field # None
            /\ Abs(init_field[1]) < INITIAL_FIELD_LIMIT) =>
        /\ last.result = "ok"
        /\ phase = "ready"
        /\ _output_field # None
    /\ (SetAccepted /\ RampWritten /\ last.result # "DaqError") =>
        last.result = "ok"

\* The log call of the last operation returned.
LogReturned == ReachedLog /\ last.result \in {"ok", "ValueError"}

\* C14: with save_log enabled, after a log call that returns the file
\* exists and holds every line it held before the call, in the same order,
\* followed by the line of this call, on the append path and on the
\* fallback path after FileNotFoundError alike; a log call that raises
\* leaves the lines as they were.
C14_FileKeepsEarlierLines ==
    (cfg.save_log /\ ReachedLog) =>
        IF LogReturned
        THEN /\ file.exists
             /\ file.lines = Append(last.pre.file.lines,
                                    [timestamp |-> clock, message |-> LoggedMessage])
        ELSE file.lines = last.pre.file.lines

\* C15: getting output_field opens no driver session, returns the stored
\* record and changes nothing of the controller, its log, its file, the
\* clock it read or the output channel. Reading measured_field opens one
\* session, leaves _output_field, _log and the file as they were and
\* writes nothing to the output channel; when it returns, _measured_field is
\* the record it returns, stamped with the time of the read and holding the
\* mean Hall voltage and its field; when a driver call raises,
\* _measured_field is as before.
C15_ReadOperationsFrame ==
    /\ last.op = "output_field" =>
        /\ last.opened = 0
        /\ last.ret = _output_field
        /\ _output_field = last.pre.output
        /\ _measured_field = last.pre.measured
        /\ _log = last.pre.log
        /\ file = last.pre.file
        /\ clock = last.pre.clock
        /\ tasks_open = last.pre.tasks_open
        /\ ao_writes = last.pre.ao_writes
        /\ ao_held = last.pre.ao_held
    /\ last.op = "measured_field" =>
        /\ last.opened <= 1
        /\ _output_field = last.pre.output
        /\ _log = last.pre.log
        /\ file = last.pre.file
        /\ ao_writes = last.pre.ao_writes
        /\ ao_held = last.pre.ao_held
        /\ IF last.result = "ok"
           THEN /\ _measured_field # None
                /\ last.ret = _measured_field
                /\ _measured_field[1].timestamp = clock
                /\ clock > last.pre.clock
                /\ _measured_field[1].field = V2H(_measured_field[1].hall_voltage)
                /\ tasks_open = last.pre.tasks_open
           ELSE _measured_field = last.pre.measured

\* A read of measured_field that returns a field other than the stored one,
\* after a set that moved the output: the record of the output is the set's.
C15_Witness ==
    /\ last.op = "measured_field"
    /\ last.result = "ok"
    /\ _measured_field # last.pre.measured
    /\ _output_field # None
    /\ _output_field[1].voltage # 0
    /\ _output_field = last.pre.output
    /\ _log = last.pre.log
    /\ ao_writes = 1

\* The voltage the output channel holds: the last sample delivered to it,
\* 0 when no sample was ever delivered.
HeldVoltage == IF ao_held = None THEN 0 ELSE ao_held[1]

\* C16: between public operations, whatever the sets before were (returned,
\* rejected by validation, or aborted by a driver call during or after the
\* ramp write), the voltage recorded in _output_field is the voltage the
\* output channel holds.
C16_RecordedOutputTracksHardware ==
    _output_field # None => _output_field[1].voltage = HeldVoltage
====
